---- MODULE Spec2Model ----
(***************************************************************************)
(* smart-doc-scanner (src/app.py): a Flask application that stores an      *)
(* uploaded document, extracts its text (PDF text layer, else OCR),        *)
(* normalizes and categorizes the text by keyword rules, and keeps one row *)
(* per upload in a SQLite table shown by a dashboard and a detail view.    *)
(*                                                                         *)
(* A text is a sequence of characters; a character is a one-character      *)
(* string ("<warn>" and "<cross>" stand for the two emoji of the source's  *)
(* messages, which are neither letters, digits, punctuation nor blanks).   *)
(*                                                                         *)
(* Environment: the local disk and the SQLite file work (file.save and the *)
(* INSERT do not raise); what the uploaded bytes are, whether PyPDF2 can   *)
(* parse them, whether PIL can open them and whether poppler/tesseract are *)
(* available is chosen freely for every request.                           *)
(***************************************************************************)
EXTENDS Integers, Sequences, FiniteSets, TLC

VARIABLES
    db,         \* rows of table documents, in insertion order
    seq,        \* sqlite_sequence of documents: the last AUTOINCREMENT id
    files,      \* the uploads directory: sanitized name -> stored content
    resp,       \* the response of the last request handled
    last,       \* the last upload request and what its handler did

    nOk,        \* number of uploads answered with the result page
    nUp,        \* number of upload requests received
    req,        \* threaded server: each worker's handler position and locals
    norm_in,    \* input of preprocess_text under SpecNormalize
    norm_out,   \* results of the successive preprocess_text passes
    cat_in,     \* input of categorize under SpecCategorize
    cat_out     \* results of categorize

vars == <<db, seq, files, resp, last, nOk, nUp, req,
          norm_in, norm_out, cat_in, cat_out>>

serverVars == <<db, seq, files, resp, last, nOk, nUp, req>>
pureVars == <<norm_in, norm_out, cat_in, cat_out>>

-----------------------------------------------------------------------------
(* Bounds of the model.                                                    *)

MaxUploads == 2

MaxNormLen == 4
MaxFrags == 3
NWorkers == 2

-----------------------------------------------------------------------------
(* Characters and the str methods the source uses.                         *)

Upper == <<"A", "B", "C", "D", "E", "F", "G", "H", "I", "J", "K", "L", "M",
           "N", "O", "P", "Q", "R", "S", "T", "U", "V", "W", "X", "Y", "Z">>
Lower == <<"a", "b", "c", "d", "e", "f", "g", "h", "i", "j", "k", "l", "m",
           "n", "o", "p", "q", "r", "s", "t", "u", "v", "w", "x", "y", "z">>
Digits == {"0", "1", "2", "3", "4", "5", "6", "7", "8", "9"}
\* string.punctuation ("<backtick>" stands for the grave accent)
Punctuation == {"!", "\"", "#", "$", "%", "&", "'", "(", ")", "*", "+", ",",
                "-", ".", "/", ":", ";", "<", "=", ">", "?", "@", "[", "\\",
                "]", "^", "_", "<backtick>", "{", "|", "}", "~"}
\* what str.split() and str.strip() treat as blank
Whitespace == {" ", "\t", "\n", "\r", "\f"}

UpperSet == {Upper[k] : k \in 1..Len(Upper)}
LowerOf == [c \in UpperSet |-> Lower[CHOOSE k \in 1..Len(Upper) : Upper[k] = c]]

LowerChar(c) == IF c \in UpperSet THEN LowerOf[c] ELSE c

\* str.lower()
lower(text) == [i \in 1..Len(text) |-> LowerChar(text[i])]

\* re.sub of every run of digits by the empty string
remove_digits(text) == SelectSeq(text, LAMBDA c : c \notin Digits)

\* text.translate(str.maketrans of string.punctuation to None)
remove_punctuation(text) == SelectSeq(text, LAMBDA c : c \notin Punctuation)

\* str.split(): the maximal runs of non-blank characters, in order
RECURSIVE split(_)
split(text) ==
    IF text = <<>> THEN <<>>
    ELSE IF Head(text) \in Whitespace THEN split(Tail(text))
    ELSE LET blanks == {i \in 1..Len(text) : text[i] \in Whitespace}
             n == IF blanks = {} THEN Len(text) + 1
                  ELSE CHOOSE i \in blanks : \A j \in blanks : i <= j
         IN  <<SubSeq(text, 1, n - 1)>> \o split(SubSeq(text, n, Len(text)))

\* sep.join(tokens)
RECURSIVE join(_, _)
join(sep, tokens) ==
    IF tokens = <<>> THEN <<>>
    ELSE IF Len(tokens) = 1 THEN tokens[1]
    ELSE tokens[1] \o sep \o join(sep, Tail(tokens))

\* str.strip()
strip(text) ==
    LET keep == {i \in 1..Len(text) : text[i] \notin Whitespace}
    IN  IF keep = {} THEN <<>>
        ELSE SubSeq(text, CHOOSE i \in keep : \A j \in keep : i <= j,
                          CHOOSE i \in keep : \A j \in keep : j <= i)

\* word in text (substring containment)
Contains(word, text) ==
    \E i \in 0..(Len(text) - Len(word)) :
        SubSeq(text, i + 1, i + Len(word)) = word

\* text.startswith(prefix) / text.endswith(suffix)
StartsWith(text, prefix) ==
    Len(prefix) <= Len(text) /\ SubSeq(text, 1, Len(prefix)) = prefix
endswith(text, suffix) ==
    /\ Len(suffix) <= Len(text)
    /\ SubSeq(text, Len(text) - Len(suffix) + 1, Len(text)) = suffix

\* all texts of at most n characters over alphabet S
TextsUpTo(S, n) == UNION {[1..k -> S] : k \in 0..n}

-----------------------------------------------------------------------------
(* Text Preprocessing (app.py 20-50).                                      *)

\* a part of nltk's English stopword list, which holds lower-case words
\* only, some of them with an apostrophe
stop_words ==
    {<<"t", "h", "e">>, <<"a">>, <<"i">>, <<"o", "f">>, <<"a", "n", "d">>,
     <<"i", "s">>, <<"n", "o", "t">>, <<"i", "n">>, <<"t", "o">>,
     <<"f", "o", "r">>, <<"t">>, <<"h", "e">>, <<"s">>,
     <<"d", "o", "n", "'", "t">>, <<"i", "s", "n", "'", "t">>}

\* A variant that filters the stopwords before it removes digits and
\* punctuation from the tokens.
preprocess_text_filter_first(text) ==
    LET tokens == split(lower(text))
        kept == SelectSeq(tokens, LAMBDA w : w \notin stop_words)
        cleaned == [i \in 1..Len(kept) |->
                        remove_punctuation(remove_digits(kept[i]))]
    IN  join(<<" ">>, SelectSeq(cleaned, LAMBDA w : w # <<>>))

preprocess_text(text) ==
    LET lowered == lower(text)
        nodigits == remove_digits(lowered)
        nopunct == remove_punctuation(nodigits)
        tokens == split(nopunct)
        kept == SelectSeq(tokens, LAMBDA w : w \notin stop_words)
    IN  join(<<" ">>, kept)

-----------------------------------------------------------------------------
(* Rule-Based Categorizer (app.py 53-63).                                  *)

W_invoice == <<"i", "n", "v", "o", "i", "c", "e">>
W_gst == <<"g", "s", "t">>
W_amount == <<"a", "m", "o", "u", "n", "t">>
W_total == <<"t", "o", "t", "a", "l">>
W_prn == <<"p", "r", "n">>
W_roll == <<"r", "o", "l", "l">>
W_student == <<"s", "t", "u", "d", "e", "n", "t">>
W_id == <<"i", "d">>
W_assignment == <<"a", "s", "s", "i", "g", "n", "m", "e", "n", "t">>
W_lecture == <<"l", "e", "c", "t", "u", "r", "e">>
W_subject == <<"s", "u", "b", "j", "e", "c", "t">>
W_class == <<"c", "l", "a", "s", "s">>
W_certificate == <<"c", "e", "r", "t", "i", "f", "i", "c", "a", "t", "e">>
W_award == <<"a", "w", "a", "r", "d">>
W_completion == <<"c", "o", "m", "p", "l", "e", "t", "i", "o", "n">>

BillWords == <<W_invoice, W_gst, W_amount, W_total>>
IdWords == <<W_prn, W_roll, W_student, W_id>>
NotesWords == <<W_assignment, W_lecture, W_subject, W_class>>
CertificateWords == <<W_certificate, W_award, W_completion>>

\* any(word in text for word in words)
any_in(words, text) == \E k \in 1..Len(words) : Contains(words[k], text)

\* A variant that tests the ID Document words before the Bill words.
categorize_id_first(text) ==
    IF any_in(IdWords, text) THEN "ID Document"
    ELSE IF any_in(BillWords, text) THEN "Bill"
    ELSE IF any_in(NotesWords, text) THEN "Notes"
    ELSE IF any_in(CertificateWords, text) THEN "Certificate"
    ELSE "Uncategorized"

categorize(text) ==
    IF any_in(BillWords, text) THEN "Bill"
    ELSE IF any_in(IdWords, text) THEN "ID Document"
    ELSE IF any_in(NotesWords, text) THEN "Notes"
    ELSE IF any_in(CertificateWords, text) THEN "Certificate"
    ELSE "Uncategorized"

-----------------------------------------------------------------------------
(* Uploaded files and the OCR tool chain.                                  *)
(*                                                                         *)
(* A content is what the uploaded bytes are: a PDF (its pages, each with   *)
(* the text PyPDF2 extracts from it, the text tesseract reads from its     *)
(* raster image, and whether extract_text raises on it), an image (the     *)
(* text tesseract reads from it) or something else.  cause is the message  *)
(* of the exception PyPDF2 raises on it.                                   *)

CauseEof == <<"E", "O", "F", " ", "m", "a", "r", "k", "e", "r", " ",
              "n", "o", "t", " ", "f", "o", "u", "n", "d">>
CauseXref == <<"I", "n", "v", "a", "l", "i", "d", " ", "x", "r", "e", "f">>
CauseImage == <<"c", "a", "n", "n", "o", "t", " ", "i", "d", "e", "n", "t",
                "i", "f", "y", " ", "i", "m", "a", "g", "e", " ",
                "f", "i", "l", "e">>
CauseTesseract == <<"t", "e", "s", "s", "e", "r", "a", "c", "t", " ", "i", "s",
                    " ", "n", "o", "t", " ", "i", "n", "s", "t", "a", "l",
                    "l", "e", "d">>

T_notes == <<"A", "s", "s", "i", "g", "n", "m", "e", "n", "t", " ", "2", "\n">>
T_blank == <<" ">>
T_stud == <<"S", "t", "u", "d", "e", "n", "t", " ", "a", "s", "s", "i", "g",
            "n", "m", "e", "n", "t", ".">>
T_scan1 == <<"T", "o", "t", "a", "l", ":", " ", "5", "\n", "\f">>
T_scan2 == <<"t", "h", "e", " ", "c", "l", "a", "s", "s", "\f">>
T_x == <<"L", "e", "c", "t", "u", "r", "e">>
T_img == <<"A", "w", "a", "r", "d", " ", "f", "o", "r", " ", "t", "h", "e",
           " ", "a", "s", "s", "i", "g", "n", "m", "e", "n", "t", "\n", "\f">>

Page(direct, scan, bad) == [direct |-> direct, scan |-> scan, bad |-> bad]

\* a PDF with a text layer
NotesPdf == [kind |-> "pdf", pages |-> <<Page(T_notes, <<>>, FALSE)>>,
             scan |-> <<>>, cause |-> <<>>]
\* a PDF whose first page has no text
StudentPdf == [kind |-> "pdf",
               pages |-> <<Page(<<>>, <<>>, FALSE), Page(T_stud, <<>>, FALSE)>>,
               scan |-> <<>>, cause |-> <<>>]
\* a scanned PDF: the text layer is blank at most
ScannedPdf == [kind |-> "pdf",
               pages |-> <<Page(T_blank, T_scan1, FALSE),
                           Page(<<>>, T_scan2, FALSE)>>,
               scan |-> <<>>, cause |-> <<>>]
\* a PDF whose second page cannot be parsed
CorruptPdf == [kind |-> "pdf",
               pages |-> <<Page(T_x, <<>>, FALSE), Page(<<>>, <<>>, TRUE)>>,
               scan |-> <<>>, cause |-> CauseXref]
\* neither a PDF nor an image
OtherFile == [kind |-> "other", pages |-> <<>>, scan |-> <<>>,
              cause |-> CauseEof]
ImageFile == [kind |-> "image", pages |-> <<>>, scan |-> T_img,
              cause |-> CauseEof]

Contents == {NotesPdf, StudentPdf, ScannedPdf, CorruptPdf, OtherFile, ImageFile}

\* The OCR tool chain during one request: whether pdf2image finds poppler,
\* and the call of pytesseract.image_to_string that raises (0: none does).
OcrEnv(poppler, fail_at) == [poppler |-> poppler, fail_at |-> fail_at]
OcrEnvs == {OcrEnv(TRUE, 0), OcrEnv(FALSE, 0), OcrEnv(TRUE, 1), OcrEnv(TRUE, 2)}

-----------------------------------------------------------------------------
(* PDF/Text Extraction (app.py 66-94, 119-122).                            *)

OCR_SENTINEL == <<"\n", "<warn>", " ", "O", "C", "R", " ", "n", "o", "t", " ",
                  "a", "v", "a", "i", "l", "a", "b", "l", "e", " ", "i", "n",
                  " ", "h", "o", "s", "t", "e", "d", " ", "v", "e", "r", "s",
                  "i", "o", "n", ".">>
PDF_ERROR_MARKER == <<"<cross>", " ", "E", "r", "r", "o", "r", " ", "e", "x",
                      "t", "r", "a", "c", "t", "i", "n", "g", " ",
                      "P", "D", "F", ":", " ">>

\* What one extraction did: the text it returned (or raised, with e), the
\* text accumulated by step 1, and the calls it made.
Extraction(raised, e, text, direct, parse_failed, rasterized, ocr_calls, ocr_failed) ==
    [raised |-> raised, e |-> e, text |-> text, direct |-> direct,
     parse_failed |-> parse_failed, rasterized |-> rasterized,
     ocr_calls |-> ocr_calls, ocr_failed |-> ocr_failed]

NoExtraction == Extraction(FALSE, <<>>, <<>>, <<>>, FALSE, FALSE, 0, FALSE)

\* step 1: for page in reader.pages: if extracted: text += extracted + "\n"
RECURSIVE DirectText(_)
DirectText(pages) ==
    IF pages = <<>> THEN <<>>
    ELSE (IF Head(pages).direct # <<>> THEN Head(pages).direct \o <<"\n">>
          ELSE <<>>) \o DirectText(Tail(pages))

\* step 2: for page in pages: text += pytesseract.image_to_string(page),
\* over the first n pages
RECURSIVE OcrText(_, _)
OcrText(pages, n) ==
    IF n = 0 THEN <<>> ELSE OcrText(pages, n - 1) \o pages[n].scan

\* A variant that lets the exception of PdfReader or extract_text escape.
extract_text_from_pdf_reraise(content, env) ==
    LET pages == content.pages
        bad == {i \in 1..Len(pages) : pages[i].bad}
    IN  IF content.kind # "pdf" \/ bad # {}
        THEN Extraction(TRUE, content.cause, <<>>, <<>>, TRUE, FALSE, 0, FALSE)
        ELSE Extraction(FALSE, <<>>, strip(DirectText(pages)), DirectText(pages),
                        FALSE, FALSE, 0, FALSE)

\* A variant whose step 2 tests "if not text" instead of "if not text.strip()".
extract_text_from_pdf_no_strip_test(content, env) ==
    LET pages == content.pages
        direct == DirectText(pages)
    IN  IF content.kind # "pdf" \/ \E i \in 1..Len(pages) : pages[i].bad
        THEN Extraction(FALSE, <<>>, PDF_ERROR_MARKER \o content.cause, <<>>,
                        TRUE, FALSE, 0, FALSE)
        ELSE IF direct # <<>>
        THEN Extraction(FALSE, <<>>, strip(direct), direct, FALSE, FALSE, 0, FALSE)
        ELSE Extraction(FALSE, <<>>, strip(OcrText(pages, Len(pages))), direct,
                        FALSE, TRUE, Len(pages), FALSE)

extract_text_from_pdf(content, env) ==
    LET pages == content.pages
        direct == DirectText(pages)
        n == Len(pages)
    IN  IF content.kind # "pdf" \/ \E i \in 1..n : pages[i].bad
        THEN \* PdfReader(filepath) or page.extract_text() raises e
             Extraction(FALSE, <<>>, PDF_ERROR_MARKER \o content.cause, <<>>,
                        TRUE, FALSE, 0, FALSE)
        ELSE IF strip(direct) # <<>>
        THEN Extraction(FALSE, <<>>, strip(direct), direct, FALSE, FALSE, 0, FALSE)
        ELSE IF ~env.poppler
        THEN \* convert_from_path raises
             Extraction(FALSE, <<>>, strip(direct \o OCR_SENTINEL), direct,
                        FALSE, TRUE, 0, TRUE)
        ELSE IF env.fail_at \in 1..n
        THEN \* image_to_string raises on page fail_at
             Extraction(FALSE, <<>>,
                        strip(direct \o OcrText(pages, env.fail_at - 1)
                                     \o OCR_SENTINEL),
                        direct, FALSE, TRUE, env.fail_at, TRUE)
        ELSE Extraction(FALSE, <<>>, strip(direct \o OcrText(pages, n)), direct,
                        FALSE, TRUE, n, FALSE)

\* pytesseract.image_to_string(Image.open(filepath))
image_to_string_of_file(content, env) ==
    IF content.kind # "image"
    THEN \* Image.open raises
         Extraction(TRUE, CauseImage, <<>>, <<>>, FALSE, FALSE, 0, FALSE)
    ELSE IF env.fail_at = 1
    THEN \* image_to_string raises
         Extraction(TRUE, CauseTesseract, <<>>, <<>>, FALSE, FALSE, 1, TRUE)
    ELSE Extraction(FALSE, <<>>, content.scan, <<>>, FALSE, FALSE, 1, FALSE)

PDF_EXT == <<".", "p", "d", "f">>

\* filename.lower().endswith(".pdf")
is_pdf(filename) == endswith(lower(filename), PDF_EXT)

\* PDF or Image detection
extract_text(filename, content, env) ==
    IF is_pdf(filename) THEN extract_text_from_pdf(content, env)
    ELSE image_to_string_of_file(content, env)

-----------------------------------------------------------------------------
(* Routes (app.py 101-139, 209-215, 300-311).                              *)

NO_FILE_MSG == <<"<cross>", " ", "N", "o", " ", "f", "i", "l", "e", " ",
                 "u", "p", "l", "o", "a", "d", "e", "d">>
BAD_NAME_MSG == <<"<cross>", " ", "N", "o", " ", "f", "i", "l", "e", " ",
                  "s", "e", "l", "e", "c", "t", "e", "d", " ", "o", "r", " ",
                  "i", "n", "v", "a", "l", "i", "d", " ",
                  "f", "i", "l", "e", "n", "a", "m", "e">>
PROCESS_ERROR_MARKER == <<"<cross>", " ", "E", "r", "r", "o", "r", " ",
                          "p", "r", "o", "c", "e", "s", "s", "i", "n", "g", " ",
                          "f", "i", "l", "e", ":", " ">>

\* [A-Za-z0-9_.-]
SafeChars ==
    UpperSet \cup {Lower[k] : k \in 1..Len(Lower)} \cup Digits \cup {"_", ".", "-"}

\* str.strip(chars)
strip_chars(text, chars) ==
    LET keep == {i \in 1..Len(text) : text[i] \notin chars}
    IN  IF keep = {} THEN <<>>
        ELSE SubSeq(text, CHOOSE i \in keep : \A j \in keep : i <= j,
                          CHOOSE i \in keep : \A j \in keep : j <= i)

\* werkzeug.utils.secure_filename on POSIX: drop what is not ASCII, turn the
\* path separator into a blank, join the blank-separated parts with "_",
\* keep [A-Za-z0-9_.-] only, strip leading and trailing "." and "_"
secure_filename(name) ==
    LET ascii == SelectSeq(name, LAMBDA c : c \notin {"<warn>", "<cross>"})
        spaced == [i \in 1..Len(ascii) |->
                       IF ascii[i] = "/" THEN " " ELSE ascii[i]]
        joined == join(<<"_">>, split(spaced))
        safe == SelectSeq(joined, LAMBDA c : c \in SafeChars)
    IN  strip_chars(safe, {".", "_"})

\* A variant that accepts every sanitized name.
usable_always(filename) == TRUE

\* if not filename: return "No file selected or invalid filename"
usable(filename) == filename # <<>>

\* file.save(os.path.join(UPLOAD_FOLDER, filename))
save(dir, filename, content) ==
    [n \in DOMAIN dir \cup {filename} |->
        IF n = filename THEN content ELSE dir[n]]

\* A variant that categorizes the raw text.
classify_raw(text) == categorize(text)

\* clean_text = preprocess_text(text); category = categorize(clean_text)
classify(text) == categorize(preprocess_text(text))

Row(id, filename, text, category) ==
    [id |-> id, filename |-> filename, extracted_text |-> text,
     category |-> category]

\* A variant that keeps one row per filename.
insert_document_replace(rows, id, filename, text, category) ==
    SelectSeq(rows, LAMBDA r : r.filename # filename)
        \o <<Row(id, filename, text, category)>>

\* INSERT INTO documents (filename, extracted_text, category) VALUES (?, ?, ?)
insert_document(rows, id, filename, text, category) ==
    Append(rows, Row(id, filename, text, category))

\* A variant that reads the row before the one asked for.
select_document_off_by_one(rows, doc_id) ==
    {i \in 1..Len(rows) : rows[i].id = doc_id - 1}

\* SELECT ... FROM documents WHERE id=?
select_document(rows, doc_id) == {i \in 1..Len(rows) : rows[i].id = doc_id}

Response(kind, msg, rows, doc) ==
    [kind |-> kind, msg |-> msg, rows |-> rows, doc |-> doc]

NoContent == [kind |-> "none", pages |-> <<>>, scan |-> <<>>, cause |-> <<>>]

NameDotDot == <<".", ".", "/">>
NamePdf == <<".", ".", "/", "a", ".", "P", "D", "F">>
NamePng == <<"b", ".", "p", "n", "g">>
RawNames == {NameDotDot, NamePdf, NamePng}

\* request.files: no part named file, or one with a client filename and bytes
UploadRequest(has_file, filename, content) ==
    [has_file |-> has_file, filename |-> filename, content |-> content]
UploadRequests ==
    {UploadRequest(FALSE, <<>>, NoContent)}
        \cup {UploadRequest(TRUE, n, c) : n \in RawNames, c \in Contents}

Last(request, env, filename, outcome, x) ==
    [request |-> request, env |-> env, filename |-> filename,
     outcome |-> outcome, x |-> x]

\* POST /upload
upload_file(request, env) ==
    /\ nUp < MaxUploads
    /\ nUp' = nUp + 1
    /\ UNCHANGED <<req, pureVars>>
    /\ IF ~request.has_file
       THEN /\ resp' = Response("no_file", NO_FILE_MSG, <<>>, <<>>)
            /\ last' = Last(request, env, <<>>, "no_file", NoExtraction)
            /\ UNCHANGED <<db, seq, files, nOk>>
       ELSE LET filename == secure_filename(request.filename) IN
            IF ~usable(filename)
            THEN /\ resp' = Response("bad_name", BAD_NAME_MSG, <<>>, <<>>)
                 /\ last' = Last(request, env, filename, "bad_name", NoExtraction)
                 /\ UNCHANGED <<db, seq, files, nOk>>
            ELSE LET stored == save(files, filename, request.content) IN
                 \E x \in {extract_text(filename, stored[filename], env)} :
                     /\ files' = stored
                     /\ IF x.raised
                        THEN /\ resp' = Response("error",
                                            PROCESS_ERROR_MARKER \o x.e,
                                            <<>>, <<>>)
                             /\ last' = Last(request, env, filename, "error", x)
                             /\ UNCHANGED <<db, seq, nOk>>
                        ELSE \E category \in {classify(x.text)} :
                             /\ db' = insert_document(db, seq + 1, filename,
                                                      x.text, category)
                             /\ seq' = seq + 1
                             /\ nOk' = nOk + 1
                             /\ resp' = Response("ok", <<>>, <<>>,
                                            <<filename, x.text, category>>)
                             /\ last' = Last(request, env, filename, "ok", x)

\* GET /dashboard
dashboard ==
    /\ resp' = Response("dashboard", <<>>,
                   [i \in 1..Len(db) |->
                        <<db[i].id, db[i].filename, db[i].category>>],
                   <<>>)
    /\ UNCHANGED <<db, seq, files, last, nOk, nUp, req, pureVars>>

\* GET /view/<int:doc_id>
view_doc(doc_id) ==
    /\ LET hit == select_document(db, doc_id) IN
       IF hit = {}
       THEN resp' = Response("not_found", <<>>, <<>>, <<doc_id>>)
       ELSE LET doc == db[CHOOSE i \in hit : TRUE] IN
            resp' = Response("detail", <<>>, <<>>,
                        <<doc_id, doc.filename, doc.extracted_text,
                          doc.category>>)
    /\ UNCHANGED <<db, seq, files, last, nOk, nUp, req, pureVars>>

\* the process after init_db() on an empty documents.db and makedirs
ServerInit ==
    /\ db = <<>>
    /\ seq = 0
    /\ files = <<>>
    /\ resp = Response("none", <<>>, <<>>, <<>>)
    /\ last = Last(UploadRequest(FALSE, <<>>, NoContent), OcrEnv(TRUE, 0),
                   <<>>, "none", NoExtraction)
    /\ nOk = 0
    /\ nUp = 0

PureIdle ==
    /\ norm_in = <<>>
    /\ norm_out = <<>>
    /\ cat_in = <<>>
    /\ cat_out = <<>>

Init == ServerInit /\ req = <<>> /\ PureIdle

Next ==
    \/ \E request \in UploadRequests, env \in OcrEnvs : upload_file(request, env)
    \/ dashboard
    \/ \E doc_id \in 0..(seq + 1) : view_doc(doc_id)

\* requests handled one at a time
Spec == Init /\ [][Next]_vars

-----------------------------------------------------------------------------
(* The threaded server (app.py 381-386: app.run serves each request in its *)
(* own thread).  upload_file in three steps, between which the other       *)
(* workers run: receive and save (103-116), extract (119-122), classify    *)
(* and insert (125-136).                                                   *)

Workers == 1..NWorkers

Locals(pc, request, filename, env, text, rowid) ==
    [pc |-> pc, request |-> request, filename |-> filename, env |-> env,
     text |-> text, rowid |-> rowid]

IdleWorker ==
    Locals("idle", UploadRequest(FALSE, <<>>, NoContent), <<>>,
           OcrEnv(TRUE, 0), <<>>, 0)

t_receive(w, request, env) ==
    /\ req[w].pc = "idle"
    /\ nUp' = nUp + 1
    /\ LET filename == IF request.has_file
                       THEN secure_filename(request.filename) ELSE <<>>
       IN  IF ~request.has_file \/ ~usable(filename)
           THEN /\ req' = [req EXCEPT
                              ![w] = Locals("rejected", request, filename, env,
                                            <<>>, 0)]
                /\ UNCHANGED files
           ELSE /\ files' = save(files, filename, request.content)
                /\ req' = [req EXCEPT
                              ![w] = Locals("saved", request, filename, env,
                                            <<>>, 0)]
    /\ UNCHANGED <<db, seq, resp, last, nOk, pureVars>>

t_extract(w) ==
    /\ req[w].pc = "saved"
    /\ LET x == extract_text(req[w].filename, files[req[w].filename], req[w].env)
       IN  req' = [req EXCEPT
                      ![w].pc = IF x.raised THEN "failed" ELSE "extracted",
                      ![w].text = x.text]
    /\ UNCHANGED <<db, seq, files, resp, last, nOk, nUp, pureVars>>

t_insert(w) ==
    /\ req[w].pc = "extracted"
    /\ db' = insert_document(db, seq + 1, req[w].filename, req[w].text,
                             classify(req[w].text))
    /\ seq' = seq + 1
    /\ nOk' = nOk + 1
    /\ req' = [req EXCEPT ![w].pc = "stored", ![w].rowid = seq + 1]
    /\ UNCHANGED <<files, resp, last, nUp, pureVars>>

InitThreaded ==
    ServerInit /\ req = [w \in Workers |-> IdleWorker] /\ PureIdle

NextThreaded ==
    \/ \E w \in Workers, request \in UploadRequests, env \in OcrEnvs :
           t_receive(w, request, env)
    \/ \E w \in Workers : t_extract(w)
    \/ \E w \in Workers : t_insert(w)

SpecThreaded == InitThreaded /\ [][NextThreaded]_vars

-----------------------------------------------------------------------------
(* preprocess_text and categorize applied to texts drawn from bounded sets. *)

NormAlphabet == {"T", "h", "e", "1", ",", " "}
NormInputs == TextsUpTo(NormAlphabet, MaxNormLen)

InitNormalize ==
    /\ ServerInit /\ req = <<>>
    /\ norm_in \in NormInputs
    /\ norm_out = <<>>
    /\ cat_in = <<>>
    /\ cat_out = <<>>

\* one more pass: preprocess_text of the input, then of the last result
normalize_pass ==
    /\ Len(norm_out) < 2
    /\ norm_out' = Append(norm_out,
                       preprocess_text(IF norm_out = <<>> THEN norm_in
                                       ELSE norm_out[Len(norm_out)]))
    /\ UNCHANGED <<serverVars, norm_in, cat_in, cat_out>>

SpecNormalize == InitNormalize /\ [][normalize_pass]_vars

CatFragments == {W_invoice, W_id, W_class, W_award, <<"t", "o", "t">>,
                 <<"a", "l">>, <<" ">>, <<"x">>}

\* the concatenations of at most n fragments
RECURSIVE Concats(_)
Concats(n) ==
    IF n = 0 THEN {<<>>}
    ELSE LET shorter == Concats(n - 1)
         IN  shorter \cup {a \o f : a \in shorter, f \in CatFragments}

CatInputs == Concats(MaxFrags)

InitCategorize ==
    /\ ServerInit /\ req = <<>>
    /\ norm_in = <<>>
    /\ norm_out = <<>>
    /\ cat_in \in CatInputs
    /\ cat_out = <<>>

categorize_call ==
    /\ cat_out = <<>>
    /\ cat_out' = <<categorize(cat_in)>>
    /\ UNCHANGED <<serverVars, norm_in, norm_out, cat_in>>

SpecCategorize == InitCategorize /\ [][categorize_call]_vars

-----------------------------------------------------------------------------
(* Properties.                                                             *)

Labels == {"Bill", "ID Document", "Notes", "Certificate", "Uncategorized"}

\* the keyword sets in priority order, with their labels
PriorityRules ==
    << <<{W_invoice, W_gst, W_amount, W_total}, "Bill">>,
       <<{W_prn, W_roll, W_student, W_id}, "ID Document">>,
       <<{W_assignment, W_lecture, W_subject, W_class}, "Notes">>,
       <<{W_certificate, W_award, W_completion}, "Certificate">> >>

\* the rules with a keyword occurring in text
Matching(text) ==
    {i \in 1..Len(PriorityRules) :
        \E w \in PriorityRules[i][1] : Contains(w, text)}

\* C1: categorize answers every text with exactly one of the five labels:
\* the label of the first rule, in priority order, one of whose keywords
\* occurs in the text as a substring, and Uncategorized when none does (the
\* empty text included).
C1_CategorizeFirstMatch ==
    cat_out # <<>> =>
        /\ Len(cat_out) = 1
        /\ cat_out[1] \in Labels
        /\ LET m == Matching(cat_in) IN
           IF m = {} THEN cat_out[1] = "Uncategorized"
           ELSE cat_out[1] =
                    PriorityRules[CHOOSE i \in m : \A j \in m : i <= j][2]
        /\ (cat_in = <<>> => cat_out[1] = "Uncategorized")

\* a text matching three rules, its keywords inside one longer token, is a
\* Bill
C1_Witness ==
    /\ cat_out = <<"Bill">>
    /\ Cardinality(Matching(cat_in)) = 3
    /\ Contains(W_invoice \o W_id, cat_in)

\* C2: every stored row has one of the five labels, the label is
\* categorize(preprocess_text(extracted_text)) of the row's own text, and no
\* request changes or removes a row already stored.
C2_RowsClassifiedAndKept ==
    /\ [](\A i \in 1..Len(db) :
             /\ db[i].category \in Labels
             /\ db[i].category =
                    categorize(preprocess_text(db[i].extracted_text)))
    /\ [][/\ Len(db') >= Len(db)
          /\ \A i \in 1..Len(db) : db'[i] = db[i]]_vars

\* two rows are stored, the first a Notes row, and a view was served after
C2_Witness ==
    /\ Len(db) = 2
    /\ db[1].category = "Notes"
    /\ db[2].category = "Bill"
    /\ resp.kind \in {"dashboard", "detail"}

\* the last request was an upload whose handler ran the PDF extraction
PdfExtracted == last.outcome \in {"ok", "error"} /\ is_pdf(last.filename)

\* the direct text of the pages in page order, each non-empty page text
\* followed by a newline
RECURSIVE PageTexts(_, _)
PageTexts(pages, n) ==
    IF n = 0 THEN <<>>
    ELSE PageTexts(pages, n - 1)
            \o (IF pages[n].direct = <<>> THEN <<>>
                ELSE pages[n].direct \o <<"\n">>)

\* the OCR output of the pages in page order
RECURSIVE PageScans(_, _)
PageScans(pages, n) ==
    IF n = 0 THEN <<>> ELSE PageScans(pages, n - 1) \o pages[n].scan

Parsable(content) ==
    content.kind = "pdf" /\ \A i \in 1..Len(content.pages) : ~content.pages[i].bad

\* C3 as stated, read for a PDF that can be parsed and an OCR run that
\* succeeds: when the direct text is blank the result is the per-page OCR
\* output concatenated in page order.
C3_AsStated ==
    (PdfExtracted /\ Parsable(last.request.content)) =>
        LET pages == last.request.content.pages
            direct == PageTexts(pages, Len(pages))
        IN  /\ last.x.direct = direct
            /\ last.x.rasterized <=> (strip(direct) = <<>>)
            /\ strip(direct) # <<>> =>
                   last.x.text = strip(direct) /\ last.x.ocr_calls = 0
            /\ (strip(direct) = <<>> /\ ~last.x.ocr_failed) =>
                   last.x.text = PageScans(pages, Len(pages))

\* C3 (amended): for a PDF that can be parsed, rasterization and OCR are
\* invoked if and only if the direct text, accumulated page by page, is
\* empty after trimming; a non-blank direct text is returned trimmed and
\* nothing is rasterized; otherwise, when rasterization and OCR succeed, the
\* result is the per-page OCR output concatenated in page order and then
\* trimmed of leading and trailing whitespace.
C3_DirectElseTrimmedOcr ==
    (PdfExtracted /\ Parsable(last.request.content)) =>
        LET pages == last.request.content.pages
            direct == PageTexts(pages, Len(pages))
        IN  /\ last.x.direct = direct
            /\ last.x.rasterized <=> (strip(direct) = <<>>)
            /\ strip(direct) # <<>> =>
                   last.x.text = strip(direct) /\ last.x.ocr_calls = 0
            /\ (strip(direct) = <<>> /\ ~last.x.ocr_failed) =>
                   /\ last.x.text = strip(PageScans(pages, Len(pages)))
                   /\ last.x.ocr_calls = Len(pages)

\* a scanned PDF whose text layer is blank but not empty went through OCR,
\* and the result is not the raw OCR output
C3_Witness ==
    /\ PdfExtracted
    /\ Parsable(last.request.content)
    /\ last.x.direct # <<>>
    /\ last.x.rasterized
    /\ ~last.x.ocr_failed
    /\ last.x.text # <<>>
    /\ last.x.text #
           PageScans(last.request.content.pages,
                     Len(last.request.content.pages))

\* the OCR-unavailable marker without the newline before it
SentinelText == Tail(OCR_SENTINEL)

\* the upload needed OCR (a scanned PDF or an image) and OCR was unavailable
OcrWasUnavailable ==
    /\ last.outcome \in {"ok", "error"}
    /\ IF is_pdf(last.filename)
       THEN /\ Parsable(last.request.content)
            /\ strip(DirectText(last.request.content.pages)) = <<>>
            /\ \/ ~last.env.poppler
               \/ last.env.fail_at \in 1..Len(last.request.content.pages)
       ELSE last.request.content.kind = "image" /\ last.env.fail_at = 1

\* C4: when OCR is unavailable during an upload that needs it, no exception
\* propagates, the extracted text ends with the OCR-unavailable marker, and
\* a row holding that text is stored.
C4_OcrUnavailableIsStored ==
    OcrWasUnavailable =>
        /\ last.outcome = "ok"
        /\ endswith(last.x.text, SentinelText)
        /\ Len(db) > 0
        /\ db[Len(db)].extracted_text = last.x.text

\* the upload names a PDF that PdfReader or extract_text cannot parse
Unparsable(request) ==
    /\ request.has_file
    /\ is_pdf(secure_filename(request.filename))
    /\ ~Parsable(request.content)

\* C5: an upload of a PDF that cannot be parsed is answered normally: the
\* extraction returns the error marker followed by the cause, and exactly
\* one row is added, holding that string and its category.
C5_ParseErrorIsStored ==
    /\ [](Unparsable(last.request) =>
             LET text == PDF_ERROR_MARKER \o last.request.content.cause IN
             /\ ~last.x.raised
             /\ last.x.text = text
             /\ last.outcome = "ok"
             /\ Len(db) > 0
             /\ db[Len(db)].extracted_text = text
             /\ db[Len(db)].filename = secure_filename(last.request.filename)
             /\ db[Len(db)].category = categorize(preprocess_text(text)))
    /\ [][(nUp' = nUp + 1 /\ Unparsable(last'.request)) =>
              /\ resp'.kind = "ok"
              /\ Len(db') = Len(db) + 1
              /\ \A i \in 1..Len(db) : db'[i] = db[i]]_vars

\* a PDF failing on its second page was stored with the error text, which
\* happens to match an ID Document keyword
C5_Witness ==
    /\ Unparsable(last.request)
    /\ last.request.content.kind = "pdf"
    /\ Len(db) = 2
    /\ StartsWith(db[2].extracted_text, PDF_ERROR_MARKER)
    /\ db[2].category = "ID Document"

\* C6: an upload with no file, or with a name that sanitizes to the empty
\* name, is answered with the fixed message and changes nothing: no file is
\* written, no extraction runs, no row is added.
C6_InputErrorChangesNothing ==
    [][(/\ nUp' = nUp + 1
        /\ \/ ~last'.request.has_file
           \/ secure_filename(last'.request.filename) = <<>>) =>
          /\ resp' = Response(IF last'.request.has_file THEN "bad_name"
                              ELSE "no_file",
                              IF last'.request.has_file THEN BAD_NAME_MSG
                              ELSE NO_FILE_MSG, <<>>, <<>>)
          /\ last'.x = NoExtraction
          /\ files' = files
          /\ db' = db
          /\ seq' = seq
          /\ nOk' = nOk]_vars

\* a request with an unusable name was refused after a document was stored
C6_Witness ==
    /\ last.outcome = "bad_name"
    /\ last.request.has_file
    /\ last.request.filename # <<>>
    /\ resp.msg = BAD_NAME_MSG
    /\ Len(db) = 1
    /\ DOMAIN files # {}

\* C7: the table holds, and the dashboard lists, exactly one row per upload
\* answered with the result page; an upload answered with an input error or
\* with the processing error adds none.
C7_OneRowPerSuccessfulUpload ==
    /\ Len(db) = nOk
    /\ nOk <= nUp
    /\ resp.kind = "dashboard" => Len(resp.rows) = nOk
    /\ last.outcome \in {"no_file", "bad_name", "error"} => resp.kind # "ok"

\* the dashboard lists the same file twice
C7_Witness ==
    /\ resp.kind = "dashboard"
    /\ Len(resp.rows) = 2
    /\ resp.rows[1][2] = resp.rows[2][2]
    /\ db[1].extracted_text = db[2].extracted_text
    /\ nUp = 2

\* the detail view of a stored row's id shows that row
Retrievable(i) ==
    /\ select_document(db, db[i].id) = {i}
    /\ (resp.kind = "detail" /\ resp.doc[1] = db[i].id) =>
           resp.doc = <<db[i].id, db[i].filename, db[i].extracted_text,
                        db[i].category>>

\* C8 as stated: a row whose normalized text contains "assignment" is a
\* Notes row, retrievable by its id.
C8_AsStated ==
    \A i \in 1..Len(db) :
        Contains(W_assignment, preprocess_text(db[i].extracted_text)) =>
            db[i].category = "Notes" /\ Retrievable(i)

\* C8 (amended): a row whose normalized text contains "assignment" and no
\* keyword of the Bill and ID Document sets is a Notes row, and the detail
\* view of its id shows its filename, text and category.
C8_AssignmentWithoutHigherRule ==
    \A i \in 1..Len(db) :
        LET clean == preprocess_text(db[i].extracted_text) IN
        Contains(W_assignment, clean) =>
            /\ (~any_in(BillWords, clean) /\ ~any_in(IdWords, clean)) =>
                   db[i].category = "Notes"
            /\ Retrievable(i)

\* the detail view shows the second row, a Notes row with "assignment"
C8_Witness ==
    /\ resp.kind = "detail"
    /\ resp.doc[1] = 2
    /\ resp.doc[4] = "Notes"
    /\ Contains(W_assignment, preprocess_text(resp.doc[3]))
    /\ Contains(W_award, preprocess_text(resp.doc[3]))

\* the first pass leaves no upper-case letter, digit or punctuation, no
\* stopword token, and single blanks between the tokens
Normalized(text) ==
    /\ \A i \in 1..Len(text) :
           text[i] \notin UpperSet \cup Digits \cup Punctuation
    /\ \A k \in 1..Len(split(text)) : split(text)[k] \notin stop_words
    /\ text = join(<<" ">>, split(text))

\* C9: preprocess_text is defined on every text and idempotent: a second
\* pass returns the result of the first; the first result is lower-case,
\* free of digits, punctuation and stopword tokens, joined by single
\* blanks; the empty text yields the empty text.
C9_NormalizeIdempotent ==
    /\ norm_out # <<>> => Normalized(norm_out[1])
    /\ (norm_out # <<>> /\ norm_in = <<>>) => norm_out[1] = <<>>
    /\ Len(norm_out) = 2 => norm_out[2] = norm_out[1]

\* a text whose digit hides a stopword: after two passes nothing is left
C9_Witness ==
    /\ norm_in = <<"T", "1", "h", "e">>
    /\ norm_out = <<<<>>, <<>>>>

\* C10: every row stored by a worker holds the text, and the category,
\* extracted from the content that worker's own request supplied.
C10_RowFromOwnContent ==
    \A w \in DOMAIN req :
        req[w].pc = "stored" =>
            LET own == extract_text(req[w].filename, req[w].request.content,
                                    req[w].env).text
                row == db[CHOOSE i \in 1..Len(db) : db[i].id = req[w].rowid]
            IN  /\ row.extracted_text = own
                /\ row.category = categorize(preprocess_text(own))

====
